---- MODULE Spec2Model ----
(***************************************************************************)
(* Model of src/app.py: the company-data extractor (CompanyDataExtractor)  *)
(* and the session ledger kept by DocumentProcessor (transcripts,          *)
(* InfoBase) together with the HTTP handlers that drive it.                *)
(*                                                                         *)
(* A Python str is modelled as a sequence of one-character strings, so     *)
(* that stripping, case conversion and re.sub act character by character.  *)
(***************************************************************************)
EXTENDS Integers, Sequences, FiniteSets, TLC

VARIABLES
    \* ---- DocumentProcessor.transcripts (src/app.py:242, 273-281) ----
    documents,            \* transcripts["documents"]
    session_id,           \* transcripts["session_id"]
    info_base_present,    \* "InfoBase" in transcripts
    extracted_companies,  \* transcripts["InfoBase"]["extracted_companies"]
    total_documents,      \* transcripts["InfoBase"]["total_documents"]
    last_updated,         \* transcripts["InfoBase"]["last_updated"]
    \* ---- environment of the server process ----
    file_exists,          \* os.path.exists(TRANSCRIPTS_FILE)
    clock,                \* datetime.now()
    uuid_count,           \* number of uuid.uuid4() values drawn so far
    response,             \* the last HTTP response sent
    \* ---- one run of CompanyDataExtractor on one field ----
    info_type,            \* the field whose patterns match in the text
    findall,              \* re.findall result of each of its patterns
    extracted_info,       \* dict filled by the loop of extract_company_info
    cleaned_data,         \* dict returned by _clean_extracted_data
    extractor_pc,         \* "input", "matched" or "cleaned"
    \* ---- the request threads of the development server ----
    requests              \* per thread: its place in process_document and its locals

ledger_vars == <<documents, session_id, info_base_present, extracted_companies,
                 total_documents, last_updated, file_exists, clock, uuid_count,
                 response>>
extractor_vars == <<info_type, findall, extracted_info, cleaned_data, extractor_pc>>
thread_vars == <<requests>>
vars == <<ledger_vars, extractor_vars, thread_vars>>

----------------------------------------------------------------------------
(* Characters and the str methods the cleaner uses.                        *)

Digits == {"0", "1", "2", "3", "4", "5", "6", "7", "8", "9"}

UpperCase == <<"A", "B", "C", "D", "E", "F", "G", "H", "I", "J", "K", "L", "M",
               "N", "O", "P", "Q", "R", "S", "T", "U", "V", "W", "X", "Y", "Z">>
LowerCase == <<"a", "b", "c", "d", "e", "f", "g", "h", "i", "j", "k", "l", "m",
               "n", "o", "p", "q", "r", "s", "t", "u", "v", "w", "x", "y", "z">>

\* the characters \s matches and str.strip() removes
Whitespace == {" ", "\n", "\t", "\r"}

IsDigit(c) == c \in Digits
IsUpper(c) == \E i \in DOMAIN UpperCase : UpperCase[i] = c
IsLower(c) == \E i \in DOMAIN LowerCase : LowerCase[i] = c
IsAlpha(c) == IsUpper(c) \/ IsLower(c)
IsSpace(c) == c \in Whitespace

char_lower(c) ==
    IF IsUpper(c) THEN LowerCase[CHOOSE i \in DOMAIN UpperCase : UpperCase[i] = c] ELSE c
char_upper(c) ==
    IF IsLower(c) THEN UpperCase[CHOOSE i \in DOMAIN LowerCase : LowerCase[i] = c] ELSE c

\* str.lower(), str.upper()
lower(s) == [i \in DOMAIN s |-> char_lower(s[i])]
upper(s) == [i \in DOMAIN s |-> char_upper(s[i])]

\* str.isalpha(): non-empty and every character alphabetic
isalpha(s) == s # <<>> /\ \A i \in DOMAIN s : IsAlpha(s[i])

\* str.strip(): drop leading and trailing whitespace
strip(s) ==
    LET kept == {i \in DOMAIN s : ~IsSpace(s[i])}
    IN  IF kept = {} THEN <<>>
        ELSE SubSeq(s, CHOOSE i \in kept : \A j \in kept : i <= j,
                       CHOOSE i \in kept : \A j \in kept : i >= j)

\* c in s
contains_char(s, c) == \E i \in DOMAIN s : s[i] = c

\* w in s (substring test)
contains(s, w) ==
    \E i \in 1..(Len(s) - Len(w) + 1) : SubSeq(s, i, i + Len(w) - 1) = w

\* the value Python's None; no str is equal to it
None == <<"None">>

\* faulty variant of truthy: 'if value is not None', which lets "" through
not_none(value) == value # None

\* Python truthiness of an extracted value: None and "" are falsy
truthy(value) == value # None /\ value # <<>>

----------------------------------------------------------------------------
(* CompanyDataExtractor._clean_extracted_data (src/app.py:175-238).        *)

\* the keys of CompanyDataExtractor.patterns
Keys == {"partita_iva", "codice_fiscale", "ragione_sociale", "sede_legale",
         "sede_amministrativa", "cap", "citta", "provincia", "telefono", "fax",
         "email", "email_certificata", "sito_web", "natura_giuridica", "ateco",
         "pec", "rea", "capitale_sociale"}

VatLen == 11
FiscalCodeShort == 11
FiscalCodeLong == 16
CapLen == 5
ProvinciaLen == 2
MinPhoneLen == 6

\* (Basic|Cribis Check|Report)
BoilerplateTokens == {<<"B", "a", "s", "i", "c">>,
                      <<"C", "r", "i", "b", "i", "s", " ", "C", "h", "e", "c", "k">>,
                      <<"R", "e", "p", "o", "r", "t">>}
\* (EMAIL|MAIL|E-MAIL)
MailLabels == {<<"E", "M", "A", "I", "L">>,
               <<"M", "A", "I", "L">>,
               <<"E", "-", "M", "A", "I", "L">>}
\* the words that mark a matched city as descriptive prose
NoiseWords == {<<"s", "e", "z", "i", "o", "n", "e">>,
               <<"c", "o", "n", "t", "i", "e", "n", "e">>,
               <<"d", "e", "t", "t", "a", "g", "l", "i", "o">>,
               <<"n", "u", "m", "e", "r", "o">>,
               <<"a", "d", "d", "e", "t", "t", "i">>}

\* whether tok, compared ignoring case, occupies s[i .. i + Len(tok) - 1]
token_at(s, i, tok) ==
    /\ i >= 1
    /\ i + Len(tok) - 1 <= Len(s)
    /\ lower(SubSeq(s, i, i + Len(tok) - 1)) = lower(tok)

Min(S) == CHOOSE i \in S : \A j \in S : i <= j

\* re.sub(r'[^0-9]', '', s)
sub_non_digits(s) == SelectSeq(s, IsDigit)

\* re.sub(r'[^A-Z0-9]', '', s)
IsUpperOrDigit(c) == IsUpper(c) \/ IsDigit(c)
sub_non_upper_alnum(s) == SelectSeq(s, IsUpperOrDigit)

\* re.sub(r'[^0-9\+]', '', s)
IsDigitOrPlus(c) == IsDigit(c) \/ c = "+"
sub_non_digit_plus(s) == SelectSeq(s, IsDigitOrPlus)

\* re.sub(r'^(Basic|Cribis Check|Report)\s+', '', s, flags=re.IGNORECASE)
sub_leading_boilerplate(s) ==
    LET toks == {t \in BoilerplateTokens :
                    token_at(s, 1, t) /\ Len(s) > Len(t) /\ IsSpace(s[Len(t) + 1])}
    IN  IF toks = {} THEN s
        ELSE LET t == CHOOSE t \in toks : TRUE
                 after == {i \in (Len(t) + 1)..Len(s) : ~IsSpace(s[i])}
             IN  IF after = {} THEN <<>> ELSE SubSeq(s, Min(after), Len(s))

\* where $ matches without re.MULTILINE: at the end, or before a final newline
at_end(s, e) == e = Len(s) \/ (e = Len(s) - 1 /\ s[Len(s)] = "\n")

\* re.sub(r'\s+(Basic|Cribis Check|Report)$', '', s, flags=re.IGNORECASE)
sub_trailing_boilerplate(s) ==
    LET starts == {i \in DOMAIN s :
                     \E k \in i..Len(s) :
                        /\ \A j \in i..k : IsSpace(s[j])
                        /\ \E t \in BoilerplateTokens :
                              token_at(s, k + 1, t) /\ at_end(s, k + Len(t))}
    IN  IF starts = {} THEN s
        ELSE SubSeq(s, 1, Min(starts) - 1)
               \o (IF s[Len(s)] = "\n" THEN <<"\n">> ELSE <<>>)

\* re.sub(r'(EMAIL|MAIL|E-MAIL)\s*$', '', s, flags=re.IGNORECASE)
sub_trailing_mail_label(s) ==
    LET starts == {i \in DOMAIN s :
                     \E t \in MailLabels :
                        /\ token_at(s, i, t)
                        /\ \A j \in (i + Len(t))..Len(s) : IsSpace(s[j])}
    IN  IF starts = {} THEN s ELSE SubSeq(s, 1, Min(starts) - 1)

\* re.split(r'[\s,;]', s)[0]
split_first(s) ==
    LET seps == {i \in DOMAIN s : IsSpace(s[i]) \/ s[i] \in {",", ";"}}
    IN  IF seps = {} THEN s ELSE SubSeq(s, 1, Min(seps) - 1)

\* re.sub(r'\s+', ' ', s): every run of whitespace becomes one space
sub_whitespace_runs(s) ==
    LET keep(i) == ~IsSpace(s[i]) \/ i = 1 \/ ~IsSpace(s[i - 1])
        kept == SelectSeq([i \in DOMAIN s |-> i], keep)
    IN  [n \in DOMAIN kept |-> IF IsSpace(s[kept[n]]) THEN " " ELSE s[kept[n]]]

\* any(word in cleaned_value.lower() for word in [...])
has_noise_word(s) == \E w \in NoiseWords : contains(lower(s), w)

\* Each branch of the if/elif chain: the set holding the value stored under
\* the key, or the empty set when the key is left out of cleaned_data.

\* key == 'ragione_sociale' (src/app.py:181-187)
clean_ragione_sociale(value) ==
    {strip(sub_trailing_boilerplate(sub_leading_boilerplate(value)))}

\* faulty variant of clean_partita_iva: 'len(cleaned_value) >= 11'
clean_partita_iva_at_least(value) ==
    LET cleaned_value == sub_non_digits(value)
    IN  IF Len(cleaned_value) >= VatLen THEN {cleaned_value} ELSE {}

\* key == 'partita_iva' (src/app.py:188-192)
clean_partita_iva(value) ==
    LET cleaned_value == sub_non_digits(value)
    IN  IF Len(cleaned_value) = VatLen THEN {cleaned_value} ELSE {}

\* key == 'codice_fiscale' (src/app.py:193-197)
clean_codice_fiscale(value) ==
    LET cleaned_value == sub_non_upper_alnum(upper(value))
    IN  IF Len(cleaned_value) \in {FiscalCodeShort, FiscalCodeLong}
        THEN {cleaned_value} ELSE {}

\* key == 'cap' (src/app.py:198-202)
clean_cap(value) ==
    LET cleaned_value == sub_non_digits(value)
    IN  IF Len(cleaned_value) = CapLen THEN {cleaned_value} ELSE {}

\* key == 'provincia' (src/app.py:203-207)
clean_provincia(value) ==
    LET cleaned_value == strip(upper(value))
    IN  IF Len(cleaned_value) = ProvinciaLen /\ isalpha(cleaned_value)
        THEN {cleaned_value} ELSE {}

\* key == 'email' (src/app.py:208-216)
clean_email(value) ==
    LET cleaned_value == split_first(sub_trailing_mail_label(strip(value)))
    IN  IF contains_char(cleaned_value, "@") /\ contains_char(cleaned_value, ".")
        THEN {cleaned_value} ELSE {}

\* key == 'citta' (src/app.py:217-222)
clean_citta(value) ==
    LET cleaned_value == strip(value)
    IN  IF ~has_noise_word(cleaned_value) THEN {cleaned_value} ELSE {}

\* key == 'telefono' (src/app.py:223-227)
clean_telefono(value) ==
    LET cleaned_value == sub_non_digit_plus(value)
    IN  IF Len(cleaned_value) >= MinPhoneLen THEN {cleaned_value} ELSE {}

\* key in ['email', 'pec'] (src/app.py:228-231)
clean_email_or_pec(value) ==
    IF contains_char(value, "@") /\ contains_char(value, ".")
    THEN {strip(lower(value))} ELSE {}

\* else (src/app.py:232-236)
clean_other(value) ==
    LET cleaned_value == strip(sub_whitespace_runs(value))
    IN  IF cleaned_value # <<>> THEN {cleaned_value} ELSE {}

\* the chain itself, in the order of the source: the first test that holds
\* decides, so 'email' never reaches the ['email', 'pec'] branch and
\* 'email_certificata' falls through to the else branch
clean_value(key, value) ==
    IF key = "ragione_sociale" THEN clean_ragione_sociale(value)
    ELSE IF key = "partita_iva" THEN clean_partita_iva(value)
    ELSE IF key = "codice_fiscale" THEN clean_codice_fiscale(value)
    ELSE IF key = "cap" THEN clean_cap(value)
    ELSE IF key = "provincia" THEN clean_provincia(value)
    ELSE IF key = "email" THEN clean_email(value)
    ELSE IF key = "citta" THEN clean_citta(value)
    ELSE IF key = "telefono" THEN clean_telefono(value)
    ELSE IF key \in {"email", "pec"} THEN clean_email_or_pec(value)
    ELSE clean_other(value)

\* _clean_extracted_data(data): a dict is a function whose domain is its keys
clean_extracted_data(data) ==
    LET stored == {key \in DOMAIN data :
                      truthy(data[key]) /\ clean_value(key, data[key]) # {}}
    IN  [key \in stored |-> CHOOSE v \in clean_value(key, data[key]) : TRUE]

----------------------------------------------------------------------------
(* CompanyDataExtractor._extract_field (src/app.py:160-173).               *)
(*                                                                         *)
(* re.findall is the library's: its result for each pattern of the list is *)
(* an input.  A result is the list of matches; a match is a str (pattern   *)
(* with at most one group) or a tuple of str (pattern with several         *)
(* groups), modelled as [is_tuple, groups] with groups = <<str>> for a     *)
(* str.                                                                    *)

str_match(s) == [is_tuple |-> FALSE, groups |-> <<s>>]
tuple_match(gs) == [is_tuple |-> TRUE, groups |-> gs]

RECURSIVE extract_field_from(_, _)
extract_field_from(results, p) ==
    IF p > Len(results) THEN None
    ELSE LET matches == results[p] IN
         IF matches # <<>>
         THEN IF matches[1].is_tuple
              THEN LET groups == matches[1].groups
                       nonempty == {g \in DOMAIN groups :
                                       groups[g] # <<>> /\ strip(groups[g]) # <<>>}
                   IN  IF nonempty # {} THEN strip(groups[Min(nonempty)])
                       ELSE extract_field_from(results, p + 1)
              ELSE strip(matches[1].groups[1])
         ELSE extract_field_from(results, p + 1)

\* _extract_field(text, patterns), given re.findall(pattern, text) per pattern
extract_field(results) == extract_field_from(results, 1)

(* CompanyDataExtractor.extract_company_info (src/app.py:134-148).         *)
(* A text is modelled by what its patterns find in it: the field whose     *)
(* patterns match (info_type) and their re.findall results; the patterns   *)
(* of every other field find nothing, so those fields are None.            *)
extract_fields(text) ==
    [key \in Keys |-> IF key = text.info_type THEN extract_field(text.findall) ELSE None]

extract_company_info(text) == clean_extracted_data(extract_fields(text))

----------------------------------------------------------------------------
(* One run of the extractor on one field: the inputs and the two steps of  *)
(* extract_company_info.                                                   *)

\* bound: the number of pieces a matched string is put together from
MaxChunks == 3

\* pieces of matched text: digit runs, separators, an address, labels
Chunks == {<<"0", "1", "2", "3", "4">>,
           <<"5", "6", "7", "8", "9", "0">>,
           <<"+">>,
           <<" ">>,
           <<"A", "b", "@", "c">>,
           <<".", "i", "t">>,
           <<"E", "M", "A", "I", "L">>,
           <<"B", "a", "s", "i", "c">>}

RECURSIVE ChunkStrings(_)
ChunkStrings(n) ==
    IF n = 0 THEN {<<>>}
    ELSE LET shorter == ChunkStrings(n - 1)
         IN  shorter \cup {s \o c : s \in shorter, c \in Chunks}

\* the group of 'Tel. 02-12345678' and of 'EMAIL CERTIFICATA\nInfo@Pec.IT'
PhoneExample == <<"0", "2", "-", "1", "2", "3", "4", "5", "6", "7", "8">>
MailExample == <<"I", "n", "f", "o", "@", "P", "e", "c", ".", "I", "T">>

\* the number after 'Phone: ' in 'Tel. \nabc\nPhone: 0212345678', a text in
\* which the second telefono pattern first matches a line break alone
TextPhone == <<"0", "2", "1", "2", "3", "4", "5", "6", "7", "8">>

\* re.findall results of a pattern list: one pattern with one str match built
\* from chunks, and short lists that take every path of _extract_field
FindallInputs ==
    {<<<<str_match(s)>>>> : s \in ChunkStrings(MaxChunks) \cup {PhoneExample, MailExample}}
    \cup {<<>>,
          <<<<>>>>,
          <<<<>>, <<str_match(<<"A", " ">>)>>>>,
          <<<<str_match(<<"\n">>)>>, <<str_match(<<"A">>)>>>>,
          <<<<>>, <<str_match(<<"\n">>)>>, <<>>, <<str_match(TextPhone)>>>>,
          <<<<tuple_match(<<<<>>, <<" ">>>>)>>, <<str_match(<<"b">>)>>>>,
          <<<<tuple_match(<<<<" ">>, <<" ", "M", "I">>>>), str_match(<<"c">>)>>>>}

ExtractorIdle ==
    /\ info_type = "partita_iva"
    /\ findall = <<>>
    /\ extracted_info = <<>>
    /\ cleaned_data = <<>>
    /\ extractor_pc = "idle"

ExtractorInit ==
    /\ info_type \in Keys
    /\ findall \in FindallInputs
    /\ extracted_info = <<>>
    /\ cleaned_data = <<>>
    /\ extractor_pc = "input"

\* the loop of extract_company_info (src/app.py:142-143)
ExtractFields ==
    /\ extractor_pc = "input"
    /\ extracted_info' = extract_fields([info_type |-> info_type, findall |-> findall])
    /\ extractor_pc' = "matched"
    /\ UNCHANGED <<info_type, findall, cleaned_data>>

\* the post-processing of extract_company_info (src/app.py:146-148)
CleanExtractedData ==
    /\ extractor_pc = "matched"
    /\ cleaned_data' = clean_extracted_data(extracted_info)
    /\ extractor_pc' = "cleaned"
    /\ UNCHANGED <<info_type, findall, extracted_info>>

----------------------------------------------------------------------------
(* DocumentProcessor and the HTTP handlers (src/app.py:240-588).           *)

\* bounds: uuid4 values drawn in one server process, and clock readings
MaxUuid == 4
MaxClock == 1

\* uploaded file names; the second has a suffix process_document rejects
Filenames == {"a.txt", "c.png"}
\* Path(filename).suffix.lower()
suffix(filename) ==
    IF filename \in {"a.txt", "b.txt"} THEN ".txt" ELSE ".png"
SupportedSuffixes == {".pdf", ".docx", ".doc", ".txt"}

\* texts of uploaded documents: 'PARTITA IVA\n01234567890', and a text whose
\* only match is the city candidate 'Sezione', which the cleaner rejects
VatText ==
    [info_type |-> "partita_iva",
     findall |-> <<<<str_match(<<"0", "1", "2", "3", "4", "5", "6", "7", "8", "9", "0">>)>>>>]
NoiseText ==
    [info_type |-> "citta",
     findall |-> <<<<str_match(<<"S", "e", "z", "i", "o", "n", "e">>)>>>>]
DocTexts == {VatText, NoiseText}

\* an HTTP response: the handler that answered and its status code; body
\* holds the InfoBase returned by /get_info_base and is empty otherwise
Response(op, code) == [op |-> op, code |-> code, body |-> <<>>]

\* load_transcripts without a transcripts file (src/app.py:273-281)
LedgerInit ==
    /\ documents = <<>>
    /\ session_id = 1
    /\ info_base_present = TRUE
    /\ extracted_companies = <<>>
    /\ total_documents = 0
    /\ last_updated = 0
    /\ file_exists = FALSE
    /\ clock = 0
    /\ uuid_count = 1
    /\ response = Response("start", 0)

\* company_info and any(company_info.values()) (src/app.py:285)
any_values(company_info) ==
    company_info # <<>> /\ \E key \in DOMAIN company_info : truthy(company_info[key])

\* faulty variant of update_info_base: the counter is taken from the records
update_info_base_counting_records(company_info, filename, docs) ==
    /\ extracted_companies' =
          IF any_values(company_info)
          THEN Append(extracted_companies,
                      [source_document |-> filename,
                       extracted_at |-> clock,
                       company_data |-> company_info])
          ELSE extracted_companies
    /\ total_documents' = Len(extracted_companies')
    /\ last_updated' = clock

\* _update_info_base when transcripts has the key "InfoBase"; docs is
\* transcripts["documents"] at the call (src/app.py:283-298)
update_info_base(company_info, filename, docs) ==
    /\ extracted_companies' =
          IF any_values(company_info)
          THEN Append(extracted_companies,
                      [source_document |-> filename,
                       extracted_at |-> clock,
                       company_data |-> company_info])
          ELSE extracted_companies
    /\ total_documents' = Len(docs)
    /\ last_updated' = clock

\* save_transcripts (src/app.py:300-303); save_ok is whether the write succeeds
save_transcripts(save_ok) ==
    file_exists' = IF save_ok THEN TRUE ELSE file_exists

\* POST /process_document with DocumentProcessor.process_document
\* (src/app.py:340-390, 416-443).  The temporary file is written and removed
\* within the call.  A document is modelled by the fields the handlers read
\* back: id, filename, text and company_info (file_type, processed_at,
\* word_count and char_count are computed from these and only reported).
process_document(filename, readable, text, save_ok) ==
    /\ filename = "" \/ uuid_count < MaxUuid
    /\ IF filename = ""
       THEN \* 'Nome file vuoto' (src/app.py:424-425)
            /\ response' = Response("process_document", 400)
            /\ UNCHANGED <<documents, session_id, info_base_present, extracted_companies,
                           total_documents, last_updated, file_exists, clock, uuid_count>>
       ELSE /\ uuid_count' = uuid_count + 1
            /\ UNCHANGED <<session_id, info_base_present, clock>>
            /\ IF suffix(filename) \notin SupportedSuffixes \/ ~readable
               THEN \* raised before the document is built (src/app.py:353-360)
                    /\ response' = Response("process_document", 500)
                    /\ UNCHANGED <<documents, extracted_companies, total_documents,
                                   last_updated, file_exists>>
               ELSE LET company_info == extract_company_info(text)
                        document == [id |-> uuid_count + 1,
                                     filename |-> filename,
                                     text |-> text,
                                     company_info |-> company_info]
                        docs == Append(documents, document)
                    IN  /\ documents' = docs
                        /\ IF ~info_base_present
                           THEN \* KeyError: 'InfoBase' (src/app.py:294, 297)
                                /\ response' = Response("process_document", 500)
                                /\ UNCHANGED <<extracted_companies, total_documents,
                                               last_updated, file_exists>>
                           ELSE /\ update_info_base(company_info, filename, docs)
                                /\ save_transcripts(save_ok)
                                /\ response' = Response("process_document",
                                                        IF save_ok THEN 200 ELSE 500)

\* DELETE /remove_document/<doc_id> (src/app.py:396-402, 482-489)
remove_document(doc_id, save_ok) ==
    /\ documents' = SelectSeq(documents, LAMBDA doc : doc.id # doc_id)
    /\ save_transcripts(save_ok)
    /\ response' = Response("remove_document", IF save_ok THEN 200 ELSE 500)
    /\ UNCHANGED <<session_id, info_base_present, extracted_companies, total_documents,
                   last_updated, clock, uuid_count>>

\* POST /clear_session (src/app.py:404-411, 491-498): transcripts is replaced
\* by a dict with the keys "documents" and "session_id" only, so the
\* InfoBase variables hold nothing afterwards
clear_session(save_ok) ==
    /\ uuid_count < MaxUuid
    /\ uuid_count' = uuid_count + 1
    /\ documents' = <<>>
    /\ session_id' = uuid_count + 1
    /\ info_base_present' = FALSE
    /\ extracted_companies' = <<>>
    /\ total_documents' = 0
    /\ last_updated' = 0
    \* save_transcripts, then os.remove of the file just written
    /\ file_exists' = IF save_ok THEN FALSE ELSE file_exists
    /\ response' = Response("clear_session", IF save_ok THEN 200 ELSE 500)
    /\ UNCHANGED clock

\* GET /get_info_base (src/app.py:549-558): transcripts.get("InfoBase", {})
get_info_base ==
    /\ response' = [op |-> "get_info_base", code |-> 200,
                    body |-> IF info_base_present
                             THEN <<[extracted_companies |-> extracted_companies,
                                     total_documents |-> total_documents,
                                     last_updated |-> last_updated]>>
                             ELSE <<>>]
    /\ UNCHANGED <<documents, session_id, info_base_present, extracted_companies,
                   total_documents, last_updated, file_exists, clock, uuid_count>>

\* faulty variant of extract_company_info_from_existing: the new field map
\* is also handed to _update_info_base
extract_company_info_appending(doc_id, save_ok) ==
    LET found == {i \in DOMAIN documents : documents[i].id = doc_id}
    IN  /\ IF found = {}
           THEN /\ response' = Response("extract_company_info", 404)
                /\ UNCHANGED <<documents, file_exists, extracted_companies,
                               total_documents, last_updated>>
           ELSE LET doc_index == Min(found)
                    company_info == extract_company_info(documents[doc_index].text)
                IN  /\ documents' = [documents EXCEPT ![doc_index].company_info = company_info]
                    /\ IF info_base_present
                       THEN update_info_base(company_info, documents[doc_index].filename,
                                             documents)
                       ELSE UNCHANGED <<extracted_companies, total_documents, last_updated>>
                    /\ save_transcripts(save_ok)
                    /\ response' = Response("extract_company_info",
                                            IF save_ok THEN 200 ELSE 500)
        /\ UNCHANGED <<session_id, info_base_present, clock, uuid_count>>

\* POST /extract_company_info/<doc_id> (src/app.py:560-588)
extract_company_info_from_existing(doc_id, save_ok) ==
    LET found == {i \in DOMAIN documents : documents[i].id = doc_id}
    IN  /\ IF found = {}
           THEN /\ response' = Response("extract_company_info", 404)
                /\ UNCHANGED <<documents, file_exists>>
           ELSE LET doc_index == Min(found)
                    company_info == extract_company_info(documents[doc_index].text)
                IN  /\ documents' = [documents EXCEPT ![doc_index].company_info = company_info]
                    /\ save_transcripts(save_ok)
                    /\ response' = Response("extract_company_info",
                                            IF save_ok THEN 200 ELSE 500)
        /\ UNCHANGED <<session_id, info_base_present, extracted_companies,
                       total_documents, last_updated, clock, uuid_count>>

\* time passes between requests
Tick ==
    /\ clock < MaxClock
    /\ clock' = clock + 1
    /\ UNCHANGED <<documents, session_id, info_base_present, extracted_companies,
                   total_documents, last_updated, file_exists, uuid_count, response>>

----------------------------------------------------------------------------
(* process_document statement by statement.  app.run starts the threaded   *)
(* development server, which hands every request to a thread of its own;   *)
(* the threads share the one DocumentProcessor and take no lock, so a      *)
(* thread can be descheduled between any two statements.                   *)

\* the threads of two requests that are in the server at the same time
Threads == {1, 2}

\* file names of the uploads: two text files, an image and the empty name
UploadNames == {"a.txt", "b.txt", "c.png", ""}

\* a thread with no request; the locals are filename, company_info and the
\* value of len(transcripts["documents"]) read for the counter
NoRequest ==
    [pc |-> "idle", filename |-> "", company_info |-> <<>>, count |-> 0, code |-> 0]

NoRequests == requests = [t \in Threads |-> NoRequest]

\* both requests are accepted before either runs its handler
Arrived == requests = [t \in Threads |-> [NoRequest EXCEPT !.pc = "arrived"]]

\* the handler of thread t returns with the given status code
answer(t, code) ==
    /\ requests' = [requests EXCEPT ![t].pc = "done", ![t].code = code]
    /\ response' = Response("process_document", code)

\* from the start of the handler to transcripts["documents"].append(document)
\* (src/app.py:416-430, 340-378)
build_document(t, filename, readable, text) ==
    /\ requests[t].pc = "arrived"
    /\ filename = "" \/ uuid_count < MaxUuid
    /\ IF filename = ""
       THEN /\ answer(t, 400)
            /\ UNCHANGED <<documents, uuid_count>>
       ELSE /\ uuid_count' = uuid_count + 1
            /\ IF suffix(filename) \notin SupportedSuffixes \/ ~readable
               THEN /\ answer(t, 500)
                    /\ UNCHANGED documents
               ELSE LET company_info == extract_company_info(text)
                    IN  /\ documents' = Append(documents,
                                               [id |-> uuid_count + 1,
                                                filename |-> filename,
                                                text |-> text,
                                                company_info |-> company_info])
                        /\ requests' = [requests EXCEPT ![t].pc = "appended",
                                                        ![t].filename = filename,
                                                        ![t].company_info = company_info]
                        /\ UNCHANGED response
    /\ UNCHANGED <<session_id, info_base_present, extracted_companies, total_documents,
                   last_updated, file_exists, clock>>

\* the if statement of _update_info_base (src/app.py:285-294)
append_record(t) ==
    /\ requests[t].pc = "appended"
    /\ IF ~any_values(requests[t].company_info)
       THEN /\ requests' = [requests EXCEPT ![t].pc = "recorded"]
            /\ UNCHANGED <<extracted_companies, response>>
       ELSE IF ~info_base_present
            THEN \* KeyError: 'InfoBase'
                 /\ answer(t, 500)
                 /\ UNCHANGED extracted_companies
            ELSE /\ extracted_companies' =
                       Append(extracted_companies,
                              [source_document |-> requests[t].filename,
                               extracted_at |-> clock,
                               company_data |-> requests[t].company_info])
                 /\ requests' = [requests EXCEPT ![t].pc = "recorded"]
                 /\ UNCHANGED response
    /\ UNCHANGED <<documents, session_id, info_base_present, total_documents,
                   last_updated, file_exists, clock, uuid_count>>

\* the right-hand side of the counter assignment, len(transcripts["documents"])
\* (src/app.py:297), is evaluated before the store
read_len(t) ==
    /\ requests[t].pc = "recorded"
    /\ requests' = [requests EXCEPT ![t].pc = "counted", ![t].count = Len(documents)]
    /\ UNCHANGED <<ledger_vars>>

\* the store of the counter and the assignment of last_updated that follows
\* it (src/app.py:297-298); no code reads last_updated in between
store_total(t) ==
    /\ requests[t].pc = "counted"
    /\ IF ~info_base_present
       THEN \* KeyError: 'InfoBase'
            /\ answer(t, 500)
            /\ UNCHANGED <<total_documents, last_updated>>
       ELSE /\ total_documents' = requests[t].count
            /\ last_updated' = clock
            /\ requests' = [requests EXCEPT ![t].pc = "stored"]
            /\ UNCHANGED response
    /\ UNCHANGED <<documents, session_id, info_base_present, extracted_companies,
                   file_exists, clock, uuid_count>>

\* save_transcripts and the response (src/app.py:383-385, 431-443)
save_document(t, save_ok) ==
    /\ requests[t].pc = "stored"
    /\ save_transcripts(save_ok)
    /\ answer(t, IF save_ok THEN 200 ELSE 500)
    /\ UNCHANGED <<documents, session_id, info_base_present, extracted_companies,
                   total_documents, last_updated, clock, uuid_count>>

----------------------------------------------------------------------------
(* Specifications.                                                         *)

\* the server process: the ledger and the handlers
Init == LedgerInit /\ ExtractorIdle /\ NoRequests

ProcessDocument ==
    /\ \E filename \in Filenames \cup {""}, readable \in BOOLEAN,
          text \in DocTexts, save_ok \in BOOLEAN :
          process_document(filename, readable, text, save_ok)
    /\ UNCHANGED <<extractor_vars, thread_vars>>

RemoveDocument ==
    /\ \E doc_id \in 1..MaxUuid, save_ok \in BOOLEAN : remove_document(doc_id, save_ok)
    /\ UNCHANGED <<extractor_vars, thread_vars>>

ClearSession ==
    /\ \E save_ok \in BOOLEAN : clear_session(save_ok)
    /\ UNCHANGED <<extractor_vars, thread_vars>>

GetInfoBase == get_info_base /\ UNCHANGED <<extractor_vars, thread_vars>>

ReExtract ==
    /\ \E doc_id \in 1..MaxUuid, save_ok \in BOOLEAN :
          extract_company_info_from_existing(doc_id, save_ok)
    /\ UNCHANGED <<extractor_vars, thread_vars>>

TimePasses == Tick /\ UNCHANGED <<extractor_vars, thread_vars>>

Next ==
    \/ ProcessDocument
    \/ RemoveDocument
    \/ ClearSession
    \/ GetInfoBase
    \/ ReExtract
    \/ TimePasses

Spec == Init /\ [][Next]_vars

\* the extractor alone, on every input of FindallInputs
InitExtractor == LedgerInit /\ ExtractorInit /\ NoRequests

MatchStep == ExtractFields /\ UNCHANGED <<ledger_vars, thread_vars>>

CleanStep == CleanExtractedData /\ UNCHANGED <<ledger_vars, thread_vars>>

NextExtractor ==
    \/ MatchStep
    \/ CleanStep

SpecExtractor == InitExtractor /\ [][NextExtractor]_vars

\* two process_document requests in the server at the same time
InitConcurrent == LedgerInit /\ ExtractorIdle /\ Arrived

BuildDocument ==
    /\ \E t \in Threads, filename \in UploadNames, readable \in BOOLEAN, text \in DocTexts :
          build_document(t, filename, readable, text)
    /\ UNCHANGED extractor_vars

AppendRecord == (\E t \in Threads : append_record(t)) /\ UNCHANGED extractor_vars

ReadLen == (\E t \in Threads : read_len(t)) /\ UNCHANGED extractor_vars

StoreTotal == (\E t \in Threads : store_total(t)) /\ UNCHANGED extractor_vars

SaveDocument ==
    /\ \E t \in Threads, save_ok \in BOOLEAN : save_document(t, save_ok)
    /\ UNCHANGED extractor_vars

NextConcurrent ==
    \/ BuildDocument
    \/ AppendRecord
    \/ ReadLen
    \/ StoreTotal
    \/ SaveDocument

SpecConcurrent == InitConcurrent /\ [][NextConcurrent]_vars

----------------------------------------------------------------------------
(* The patterns whose capture groups the claims on cleaned values rest on. *)

\* telefono (src/app.py:88-93): ([0-9]{10,}) or ([0-9\s\-\+\.\(\)]+)
telefono_group(s) ==
    /\ s # <<>>
    /\ \A i \in DOMAIN s : IsDigit(s[i]) \/ IsSpace(s[i]) \/ s[i] \in {"-", "+", ".", "(", ")"}

\* email_certificata and pec (src/app.py:104-106, 119-122):
\* ([a-zA-Z0-9._%+-]+@[a-zA-Z0-9.-]+\.[a-zA-Z]{2,})
address_group(s) ==
    \E at \in DOMAIN s, dot \in DOMAIN s :
        /\ 1 < at /\ at + 1 < dot /\ dot + 2 <= Len(s)
        /\ s[at] = "@" /\ s[dot] = "."
        /\ \A i \in 1..(at - 1) :
              IsAlpha(s[i]) \/ IsDigit(s[i]) \/ s[i] \in {".", "_", "%", "+", "-"}
        /\ \A i \in (at + 1)..(dot - 1) :
              IsAlpha(s[i]) \/ IsDigit(s[i]) \/ s[i] \in {".", "-"}
        /\ \A i \in (dot + 1)..Len(s) : IsAlpha(s[i])

\* every match re.findall returned is a str that the group test admits
matches_are(group_test(_)) ==
    \A p \in DOMAIN findall : \A m \in DOMAIN findall[p] :
        ~findall[p][m].is_tuple /\ group_test(findall[p][m].groups[1])

----------------------------------------------------------------------------
(* Claims.                                                                 *)

\* a step in which process_document appended its document and so called
\* _update_info_base with that document's company_info
Appended == Len(documents') = Len(documents) + 1
AppendedInfo == documents'[Len(documents')].company_info

IsPrefix(s, t) == Len(s) <= Len(t) /\ SubSeq(t, 1, Len(s)) = s

\* C1: the record sequence is append-only within a session: every call of
\* _update_info_base with a non-empty field map makes it one record longer
\* and keeps the earlier records in place, and no step that keeps the session
\* removes, reorders or rewrites a record.
C1_AppendOnly ==
    [][/\ (Appended /\ any_values(AppendedInfo)) =>
             /\ Len(extracted_companies') = Len(extracted_companies) + 1
             /\ IsPrefix(extracted_companies, extracted_companies')
       /\ (session_id' = session_id) =>
             IsPrefix(extracted_companies, extracted_companies')]_vars

\* a step of clear_session
Cleared == response'.op = "clear_session" /\ uuid_count' # uuid_count

\* C2: clear_session leaves a ledger that still exists, with an empty record
\* sequence, and a session identity different from the previous one.
C2_ClearKeepsLedger ==
    [][Cleared =>
          /\ info_base_present'
          /\ extracted_companies' = <<>>
          /\ session_id' # session_id]_vars

\* a step in which /extract_company_info/<doc_id> found the document
ReExtracted ==
    /\ response'.op = "extract_company_info"
    /\ response'.code # 404
    /\ response' # response

\* C3 as stated: re-extracting an already processed document appends a new
\* record, so the ledger holds one more record and the earlier ones unchanged.
C3_ReExtractAppends ==
    [][ReExtracted =>
          /\ Len(extracted_companies') = Len(extracted_companies) + 1
          /\ IsPrefix(extracted_companies, extracted_companies')]_vars

\* C3 as amended: re-extraction leaves the whole ledger as it was (no record
\* appended, removed or rewritten, counters untouched); it only replaces the
\* company_info stored on the document.
C3_ReExtractLeavesLedger ==
    [][(response'.op = "extract_company_info") =>
          /\ extracted_companies' = extracted_companies
          /\ total_documents' = total_documents
          /\ last_updated' = last_updated
          /\ info_base_present' = info_base_present
          /\ Len(documents') = Len(documents)
          /\ \A i \in DOMAIN documents :
                /\ documents'[i].id = documents[i].id
                /\ documents'[i].text = documents[i].text
                /\ documents'[i].company_info \in
                      {documents[i].company_info, extract_company_info(documents[i].text)}]_vars

\* a document was re-extracted while the ledger holds the record made when it
\* was processed
C3_Witness ==
    /\ response.op = "extract_company_info"
    /\ response.code = 200
    /\ \E r \in DOMAIN extracted_companies, d \in DOMAIN documents :
          /\ extracted_companies[r].source_document = documents[d].filename
          /\ extracted_companies[r].company_data = documents[d].company_info

\* C4: within one session the value of InfoBase.total_documents never
\* decreases from one state to the next.
C4_TotalNeverDecreases ==
    [][(session_id' = session_id) => total_documents' >= total_documents]_vars

\* C5: after every completed process_document, whether or not a record was
\* appended, total_documents is the length of the documents list (the new
\* document included) and last_updated is the current time.
C5_CountersRefreshed ==
    [][(Appended /\ response'.code = 200) =>
          /\ total_documents' = Len(documents')
          /\ last_updated' = clock]_vars

\* a completed process_document after which the counter, taken from the
\* documents list, differs from the number of records
C5_Witness ==
    /\ response.op = "process_document"
    /\ response.code = 200
    /\ total_documents = Len(documents)
    /\ total_documents # Len(extracted_companies)
    /\ last_updated = clock
    /\ clock > 0

\* C6: when the field map handed to _update_info_base is empty, no record is
\* appended and the record sequence is unchanged, while total_documents and
\* last_updated are still refreshed.
C6_EmptyMapRefreshes ==
    [][(Appended /\ ~any_values(AppendedInfo)) =>
          /\ extracted_companies' = extracted_companies
          /\ info_base_present'
          /\ total_documents' = Len(documents')
          /\ last_updated' = clock]_vars

\* C7: the field map returned by extract_company_info holds no None, empty or
\* whitespace-only value: every stored value is non-empty and trimmed.
C7_NoEmptyValues ==
    \A key \in DOMAIN cleaned_data :
        /\ cleaned_data[key] # None
        /\ cleaned_data[key] # <<>>
        /\ strip(cleaned_data[key]) = cleaned_data[key]

\* the cleaner has rewritten a matched legal name to a shorter, stored value
C7_Witness ==
    /\ extractor_pc = "cleaned"
    /\ info_type = "ragione_sociale"
    /\ "ragione_sociale" \in DOMAIN cleaned_data
    /\ Len(cleaned_data["ragione_sociale"]) < Len(extracted_info["ragione_sociale"])

\* C8: an accepted telefono value is made of decimal digits with at most one
\* '+', which can only be its first character, and is at least 6 long.
C8_PhoneWellFormed ==
    (extractor_pc = "cleaned" /\ info_type = "telefono" /\ matches_are(telefono_group)
        /\ "telefono" \in DOMAIN cleaned_data) =>
       LET v == cleaned_data["telefono"]
       IN  /\ Len(v) >= MinPhoneLen
           /\ \A i \in DOMAIN v : IsDigit(v[i]) \/ (i = 1 /\ v[i] = "+")

\* C9: every pec or email_certificata value in a returned field map has been
\* lowercased: it contains no uppercase letter.
C9_CertifiedMailLowercase ==
    (extractor_pc = "cleaned" /\ info_type \in {"pec", "email_certificata"}
        /\ matches_are(address_group)) =>
       \A key \in DOMAIN cleaned_data :
           \A i \in DOMAIN cleaned_data[key] : ~IsUpper(cleaned_data[key][i])

trimmed_candidate(match) ==
    LET nonempty == {g \in DOMAIN match.groups : strip(match.groups[g]) # <<>>}
    IN  IF nonempty = {} THEN <<>> ELSE strip(match.groups[Min(nonempty)])

\* first-match-wins over non-empty candidates
first_non_empty_candidate(results) ==
    LET yielding == {p \in DOMAIN results :
                        results[p] # <<>> /\ trimmed_candidate(results[p][1]) # <<>>}
    IN  IF yielding = {} THEN None
        ELSE trimmed_candidate(results[Min(yielding)][1])

\* re.findall results that the patterns of the field can produce, for the
\* fields whose groups are modelled above
pattern_results ==
    \/ info_type \in {"telefono", "fax"} /\ matches_are(telefono_group)
    \/ info_type \in {"pec", "email_certificata"} /\ matches_are(address_group)

\* C11: _extract_field returns the trimmed candidate of the lowest-index
\* pattern whose first match yields a non-empty one; a first match that trims
\* to empty does not end the search, and the result is None, never "", when
\* no pattern yields a non-empty candidate.
C11_FirstNonEmptyWins ==
    (extractor_pc # "input" /\ pattern_results) =>
        /\ extracted_info[info_type] = first_non_empty_candidate(findall)
        /\ extracted_info[info_type] # <<>>

\* the records the documents of the list call for, document by document
records_of(docs) ==
    LET with_values == SelectSeq(docs, LAMBDA doc : any_values(doc.company_info))
    IN  [i \in DOMAIN with_values |->
            [source_document |-> with_values[i].filename,
             company_data |-> with_values[i].company_info]]

\* the records of the ledger without their timestamps
records_kept ==
    [i \in DOMAIN extracted_companies |->
        [source_document |-> extracted_companies[i].source_document,
         company_data |-> extracted_companies[i].company_data]]

BothAnswered == \A t \in Threads : requests[t].pc = "done" /\ requests[t].code = 200

\* C12: when two concurrent process_document requests have both completed,
\* the state is that of one of the two sequential orders: both documents are
\* present, the records are those of the documents in the same relative
\* order, and total_documents is the number of documents.
C12_AsIfSequential ==
    BothAnswered =>
        /\ Len(documents) = Cardinality(Threads)
        /\ records_kept = records_of(documents)
        /\ total_documents = Len(documents)

\* a step of process_document that put a document in the list
Uploaded == response'.op = "process_document" /\ Appended

\* C13: a process_document that directly follows clear_session finds the
\* ledger that _update_info_base writes to and leaves it in place: when its
\* text yields a field, the ledger then holds exactly that one record and
\* total_documents is 1.
C13_UploadAfterClear ==
    [][(response.op = "clear_session" /\ Uploaded) =>
          /\ info_base_present /\ info_base_present'
          /\ any_values(AppendedInfo) =>
                /\ Len(extracted_companies') = 1
                /\ extracted_companies'[1].company_data = AppendedInfo
                /\ total_documents' = 1]_vars

\* a step of process_document that ended with an error
UploadFailed == response'.op = "process_document" /\ response'.code \in {400, 500}

\* C14: process_document is all-or-nothing on the in-memory state: when it
\* ends with an error, the documents list and the ledger (records and
\* total_documents) are exactly as before the call.
C14_AllOrNothing ==
    [][UploadFailed =>
          /\ documents' = documents
          /\ extracted_companies' = extracted_companies
          /\ total_documents' = total_documents]_vars

====
